---------------------------- MODULE Spec2Model ----------------------------
(***************************************************************************)
(* A model of musa's tag layer (src/musa/tags/tagparser.py): the generic   *)
(* TagParser over a native tag entry, and the Tags facade with its         *)
(* process-wide instance cache.                                            *)
(*                                                                         *)
(* The specifications share the pure operators that model TagParser's      *)
(* methods:                                                                *)
(*   Spec        one TagParser and a caller invoking get_tag, set_tag,     *)
(*               del, keys and save one by one;                            *)
(*   SpecRead    one TagParser and a caller reading it (has_key, [],       *)
(*               keys) and deleting tags;                                  *)
(*   SpecFacade  one Tags.TagParserInstance and a caller invoking          *)
(*               update_tags and remove_tags;                              *)
(*   SpecLoad    a caller constructing Tags(path) over files that may be   *)
(*               missing or unsupported;                                   *)
(*   SpecNum     one TrackNumberingTag: assignments to value and total,    *)
(*               and save_tag;                                             *)
(*   SpecConc    worker threads, each constructing Tags(path), calling     *)
(*               set_tag and then tags.save(), over the shared cache;      *)
(*   SpecMap     the two lookups of a parser's tag map;                    *)
(*   SpecArt     one parser with its TrackAlbumart: tags[item] = value,    *)
(*               import_albumart, defined and as_base64_tag;               *)
(*   SpecXc      one MusaTranscoder (src/musa/transcoder.py): enqueue()    *)
(*               calls, then run() and the worker threads it starts;       *)
(*   SpecDry     runs of one TranscoderThread, dry or not;                 *)
(*   SpecDb      one MusaDB (src/musa/models.py): register_tree,           *)
(*               unregister_tree and get_tree;                             *)
(*   SpecRsync   constructions of RsyncThread (src/musa/sync.py).          *)
(***************************************************************************)
EXTENDS Integers, Sequences, FiniteSets, TLC

VARIABLES
    parser,     \* Spec: the TagParser: [entry, modified, tag_map]
    last,       \* Spec: the latest call and what it gave back to the caller
    cache,      \* SpecConc: Tags.__instances: raw path -> instance id (0: no entry)
    inst,       \* SpecConc: the TagParserInstance objects constructed so far
    disk,       \* SpecConc: the tag block stored in each file, by resolved path
    pc,         \* SpecConc: each worker's position
    wpath,      \* SpecConc: the path argument each worker passes to Tags()
    cur,        \* SpecConc: the instance each worker's running call is bound to
    files,      \* SpecLoad: what each file is: [exists, codec, metadata, parser]
    lcall,      \* SpecLoad: the latest Tags(path) call and how it ended
    failed,     \* SpecLoad: the path arguments whose Tags(path) has failed so far
    num,        \* SpecNum: the TrackNumberingTag: [f_value, f_total]
    nentry,     \* SpecNum: the numbering the native entry holds, if any
    ncall,      \* SpecNum: the latest call on the numbering tag and how it ended
    art,        \* SpecArt: the TrackAlbumart: [modified, albumart]
    acall,      \* SpecArt: the latest call on the parser or its artwork
    threads,    \* SpecXc: MusaTranscoder.threads
    queue,      \* SpecXc: the MusaTranscoder list: the (src,dst) pairs waiting
    enqueued,   \* SpecXc: the pairs enqueue() has accepted, in order
    xstatus,    \* SpecXc: how the latest enqueue() call ended
    workers,    \* SpecXc: the TranscoderThreads started so far: [pair, alive]
    mainpc,     \* SpecXc: the position of the thread calling enqueue() and run()
    active,     \* SpecXc: run()'s local variable active
    trun,       \* SpecDry: the latest TranscoderThread.run(): its inputs and what it did
    trees,      \* SpecDb: the paths of the rows of table trees
    dcall,      \* SpecDb: the latest MusaDB call and how it ended
    rcall       \* SpecRsync: the latest RsyncThread construction and its result

seqVars == <<parser, last>>
concVars == <<cache, inst, disk, pc, wpath, cur>>
loadVars == <<files, lcall, failed>>
numVars == <<num, nentry, ncall>>
artVars == <<art, acall>>
xcVars == <<threads, queue, enqueued, xstatus, workers, mainpc, active>>
dryVars == <<trun>>
dbVars == <<trees, dcall>>
rsyncVars == <<rcall>>
moreVars == <<dryVars, dbVars, rsyncVars>>
restVars == <<artVars, xcVars, moreVars>>
vars == <<seqVars, concVars, loadVars, numVars, restVars>>

\* The variables of SpecLoad and SpecNum while another specification runs.
LoadIdle ==
    /\ files = <<>>
    /\ lcall = <<>>
    /\ failed = {}

NumIdle ==
    /\ num = <<>>
    /\ nentry = <<>>
    /\ ncall = <<>>

ArtIdle ==
    /\ art = <<>>
    /\ acall = <<>>

XcIdle ==
    /\ threads = 0
    /\ queue = <<>>
    /\ enqueued = <<>>
    /\ xstatus = ""
    /\ workers = <<>>
    /\ mainpc = ""
    /\ active = 0

DryIdle == trun = <<>>

DbIdle ==
    /\ trees = {}
    /\ dcall = <<>>

RsyncIdle == rcall = <<>>

MoreIdle == DryIdle /\ DbIdle /\ RsyncIdle

(***************************************************************************)
(* Bounds.                                                                 *)
(***************************************************************************)
\* Integers a native field may hold are 0..MaxInt.
MaxInt == 1
\* Worker threads of SpecConc.
NumThreads == 2
\* Track and disk numbers are 0..MaxNum.
MaxNum == 2
\* MusaTranscoder.threads is 1..MaxThreads.
MaxThreads == 2
\* enqueue() is called at most MaxQueue times before run().
MaxQueue == 3
\* A list of rsync flags has at most MaxFlags elements, a string of flags
\* at most MaxFlags pieces (flags and blanks).
MaxFlags == 2

(***************************************************************************)
(* Native values.  A native field holds one element or a list of elements; *)
(* an element is unicode text, an integer or a byte string (which decodes  *)
(* as UTF-8 or does not).                                                  *)
(***************************************************************************)
U(s) == [kind |-> "unicode", s |-> s, n |-> 0]
I(n) == [kind |-> "int", s |-> "", n |-> n]
B(s) == [kind |-> "str", s |-> s, n |-> 0]
BadBytes == [kind |-> "badstr", s |-> "", n |-> 0]

List(elems) == [islist |-> TRUE, elems |-> elems]
Scalar(e) == [islist |-> FALSE, elems |-> <<e>>]

Digit == <<"0", "1", "2", "3", "4", "5", "6", "7", "8", "9">>

\* '%d' % value, for value >= 0
RECURSIVE Dec(_)
Dec(n) == IF n < 10 THEN Digit[n + 1] ELSE Dec(n \div 10) \o Digit[(n % 10) + 1]

Range(s) == {s[i] : i \in 1..Len(s)}
Min(S) == CHOOSE x \in S : \A y \in S : x <= y
NoVal == <<>>

(***************************************************************************)
(* The tag maps a parser may be constructed with: an ordered list of       *)
(* (name, fields) items; fields is a list of native field names, or None   *)
(* (none = TRUE) for a name that is an internal reference.                 *)
(***************************************************************************)
Item(name, fields) == [name |-> name, none |-> FALSE, fields |-> fields]
NoneItem(name) == [name |-> name, none |-> TRUE, fields |-> <<>>]

TagMap1 ==
    << Item("album_artist", <<"TPE2">>),
       Item("comment", <<"COMM", "DESC">>),
       NoneItem("internal") >>

TagMaps == {TagMap1}

\* musa.tags.constants.STANDARD_TAG_ORDER
STANDARD_TAG_ORDER == <<"title", "album_artist">>

\* The native field names a file may hold, in the order entry.keys() lists them.
FieldOrder == <<"XTRA", "DESC", "TPE2", "COMM", "title">>
Fields == Range(FieldOrder)

\* The names callers pass: the names of the tag map and literal field names.
Names == {"album_artist", "comment", "internal", "title", "XTRA"}

\* The text values callers write.
TextValues == {"a"}

\* What a file may hold in each native field when it is loaded.
LoadValues(f) ==
    CASE f = "TPE2"  -> {List(<<U("x")>>)} \cup {Scalar(I(n)) : n \in 0..MaxInt}
      [] f = "COMM"  -> {List(<<U("x")>>), List(<<>>)}
      [] f = "DESC"  -> {List(<<U("y"), U("x")>>), List(<<BadBytes>>)}
      [] f = "XTRA"  -> {List(<<B("x")>>)}
      [] f = "title" -> {Scalar(U("x"))}

\* The native tag entries a file may load as: any set of fields, each with a value.
LoadableEntries ==
    UNION { {e \in [S -> UNION {LoadValues(f) : f \in S}] :
                \A f \in S : e[f] \in LoadValues(f)} : S \in SUBSET Fields }

\* entry.keys()
EntryKeys(entry) == SelectSeq(FieldOrder, LAMBDA f : f \in DOMAIN entry)


(***************************************************************************)
(* TagParser.  A parser p is [entry, modified, tag_map]; entry is a        *)
(* function whose domain is the set of native fields present.  Every       *)
(* method is an operator giving the parser afterwards (p), what the caller *)
(* gets (status: "ok" or the exception raised; val: the value returned, as *)
(* a list of texts) and what the native entry's save did (native: "none",  *)
(* "ok" or "raised").                                                      *)
(***************************************************************************)
Ret(p, status, val, native) ==
    [p |-> p, status |-> status, val |-> val, native |-> native]

\* TagParser.__init__ over the entry the codec's parser loaded
NewParser(entry, tag_map) ==
    [entry |-> entry, modified |-> FALSE, tag_map |-> tag_map]

\* TagParser.__tag2fields__: the fields of the first item named tag, else [tag]
tag2fields(tag_map, tag) ==
    LET hits == {i \in 1..Len(tag_map) : tag_map[i].name = tag}
    IN  IF hits = {}
        THEN [none |-> FALSE, fields |-> <<tag>>]
        ELSE [none |-> tag_map[Min(hits)].none, fields |-> tag_map[Min(hits)].fields]

\* __field2tag__ going on after a match, so that the last match is returned
field2tag_last_match(tag_map, field) ==
    LET hits == {i \in 1..Len(tag_map) :
                    ~tag_map[i].none /\ field \in Range(tag_map[i].fields)}
    IN  IF hits = {} THEN field
        ELSE tag_map[CHOOSE i \in hits : \A j \in hits : i >= j].name

\* TagParser.__field2tag__: the first item whose field list holds field, else field
field2tag(tag_map, field) ==
    LET hits == {i \in 1..Len(tag_map) :
                    ~tag_map[i].none /\ field \in Range(tag_map[i].fields)}
    IN  IF hits = {} THEN field ELSE tag_map[Min(hits)].name

\* The coercion of one element in __getitem__: unicode as is, an integer as
\* '%d', anything else decoded as UTF-8
ToUnicode(e) ==
    CASE e.kind = "unicode" -> [ok |-> TRUE, s |-> e.s]
      [] e.kind = "int"     -> [ok |-> TRUE, s |-> Dec(e.n)]
      [] e.kind = "str"     -> [ok |-> TRUE, s |-> e.s]
      [] e.kind = "badstr"  -> [ok |-> FALSE, s |-> ""]

\* __getitem__ returning the last candidate field present instead of the first
getitem_last_present(p, item) ==
    LET r == tag2fields(p.tag_map, item)
        present == {i \in 1..Len(r.fields) : r.fields[i] \in DOMAIN p.entry}
        Max(S) == CHOOSE x \in S : \A y \in S : x >= y
    IN  IF r.none THEN Ret(p, "TypeError", NoVal, "none")
        ELSE IF present = {} THEN Ret(p, "KeyError", NoVal, "none")
        ELSE LET tag == p.entry[r.fields[Max(present)]].elems
                 conv == [i \in 1..Len(tag) |-> ToUnicode(tag[i])]
             IN  IF \E i \in 1..Len(tag) : ~conv[i].ok
                 THEN Ret(p, "TagError: Error decoding", NoVal, "none")
                 ELSE Ret(p, "ok", [i \in 1..Len(tag) |-> conv[i].s], "none")

\* TagParser.__getitem__: the values of the first candidate field present
getitem(p, item) ==
    LET r == tag2fields(p.tag_map, item)
        present == {i \in 1..Len(r.fields) : r.fields[i] \in DOMAIN p.entry}
    IN  IF r.none THEN Ret(p, "TypeError", NoVal, "none")
        ELSE IF present = {} THEN Ret(p, "KeyError", NoVal, "none")
        ELSE LET tag == p.entry[r.fields[Min(present)]].elems
                 conv == [i \in 1..Len(tag) |-> ToUnicode(tag[i])]
             IN  IF \E i \in 1..Len(tag) : ~conv[i].ok
                 THEN Ret(p, "TagError: Error decoding", NoVal, "none")
                 ELSE Ret(p, "ok", [i \in 1..Len(tag) |-> conv[i].s], "none")

\* __delitem__ leaving the loop after the first field it deletes
delitem_first_only(p, item) ==
    LET r == tag2fields(p.tag_map, item)
        present == {i \in 1..Len(r.fields) : r.fields[i] \in DOMAIN p.entry}
    IN  IF r.none THEN Ret(p, "TypeError", NoVal, "none")
        ELSE IF present = {} THEN Ret(p, "ok", NoVal, "none")
        ELSE Ret([p EXCEPT !.entry = [f \in DOMAIN p.entry \ {r.fields[Min(present)]}
                                         |-> p.entry[f]],
                           !.modified = TRUE],
                 "ok", NoVal, "none")

\* TagParser.__delitem__: delete every candidate field present
delitem(p, item) ==
    LET r == tag2fields(p.tag_map, item)
        gone == Range(r.fields) \cap DOMAIN p.entry
    IN  IF r.none THEN Ret(p, "TypeError", NoVal, "none")
        ELSE IF gone = {} THEN Ret(p, "ok", NoVal, "none")
        ELSE Ret([p EXCEPT !.entry = [f \in DOMAIN p.entry \ gone |-> p.entry[f]],
                           !.modified = TRUE],
                 "ok", NoVal, "none")

\* __flatten_tag__ returning the last element of the value instead of the first
flatten_tag_last(p, tag) ==
    LET r == getitem(p, tag)
    IN  IF r.status = "KeyError" THEN Ret(p, "None", NoVal, "none")
        ELSE IF r.status # "ok" THEN r
        ELSE IF Len(r.val) = 0 THEN Ret(p, "None", NoVal, "none")
        ELSE Ret(p, "ok", <<r.val[Len(r.val)]>>, "none")

\* TagParser.__flatten_tag__: status "None" stands for the None it returns
flatten_tag(p, tag) ==
    LET r == getitem(p, tag)
    IN  IF r.status = "KeyError" THEN Ret(p, "None", NoVal, "none")
        ELSE IF r.status # "ok" THEN r
        ELSE IF Len(r.val) = 0 THEN Ret(p, "None", NoVal, "none")
        ELSE Ret(p, "ok", <<r.val[1]>>, "none")

\* has_key testing each candidate against the candidate list, not the entry
has_key_in_candidates(p, key) ==
    LET r == tag2fields(p.tag_map, key)
    IN  IF r.none THEN Ret(p, "TypeError", NoVal, "none")
        ELSE IF \E k \in Range(r.fields) : k \in Range(r.fields)
             THEN Ret(p, "ok", <<"True">>, "none")
             ELSE Ret(p, "ok", <<"False">>, "none")

\* TagParser.has_key: val is <<"True">> or <<"False">>
has_key(p, key) ==
    LET r == tag2fields(p.tag_map, key)
    IN  IF r.none THEN Ret(p, "TypeError", NoVal, "none")
        ELSE IF \E k \in Range(r.fields) : k \in DOMAIN p.entry
             THEN Ret(p, "ok", <<"True">>, "none")
             ELSE Ret(p, "ok", <<"False">>, "none")

\* TagParser.get_tag
get_tag(p, item) ==
    LET h == has_key(p, item)
        v == flatten_tag(p, item)
    IN  IF h.status # "ok" THEN h
        ELSE IF h.val = <<"False">> THEN Ret(p, "TagError: No such tag", NoVal, "none")
        ELSE IF v.status = "None" THEN Ret(p, "TagError: No such string tag", NoVal, "none")
        ELSE v

\* set_tag of a codec's parser: write the text to the tag's native field and
\* mark the parser modified
set_tag(p, item, value) ==
    LET r == tag2fields(p.tag_map, item)
    IN  IF r.none \/ Len(r.fields) = 0 THEN Ret(p, "TypeError", NoVal, "none")
        ELSE LET field == r.fields[1]
             IN  Ret([p EXCEPT !.entry = [f \in DOMAIN p.entry \cup {field} |->
                                             IF f = field THEN List(<<U(value)>>)
                                             ELSE p.entry[f]],
                               !.modified = TRUE],
                     "ok", NoVal, "none")

\* TagParser.sort_keys
sort_keys(keys) ==
    SelectSeq(STANDARD_TAG_ORDER, LAMBDA k : k \in Range(keys))
        \o SelectSeq(keys, LAMBDA k : k \notin Range(STANDARD_TAG_ORDER))

\* TagParser.keys
keys(p) ==
    LET ek == EntryKeys(p.entry)
    IN  Ret(p, "ok", sort_keys([i \in 1..Len(ek) |-> field2tag(p.tag_map, ek[i])]), "none")

\* The loop of items() and values(): each tag of keys() flattened, in order;
\* the first exception of __flatten_tag__ ends it
Flattened(p) ==
    LET ks == keys(p).val
        flat == [i \in 1..Len(ks) |-> flatten_tag(p, ks[i])]
        raised == {i \in 1..Len(ks) : flat[i].status \notin {"ok", "None"}}
        kept == SelectSeq([i \in 1..Len(ks) |-> i], LAMBDA i : flat[i].status = "ok")
    IN  [status |-> IF raised = {} THEN "ok" ELSE flat[Min(raised)].status,
         pairs |-> IF raised = {}
                   THEN [j \in 1..Len(kept) |-> <<ks[kept[j]], flat[kept[j]].val[1]>>]
                   ELSE <<>>]

\* TagParser.items: val is the list of (tag, value) pairs
items(p) == Ret(p, Flattened(p).status, Flattened(p).pairs, "none")

\* TagParser.values: val is the list of values
values(p) ==
    Ret(p, Flattened(p).status,
        [j \in 1..Len(Flattened(p).pairs) |-> Flattened(p).pairs[j][2]], "none")

\* save without the test of the modified flag
save_unguarded(p, io_ok) ==
    IF io_ok THEN Ret(p, "ok", NoVal, "ok")
    ELSE Ret(p, "IOError", NoVal, "raised")

\* save clearing the modified flag before the native save is known to succeed
save_clears_first(p, io_ok) ==
    IF ~p.modified THEN Ret(p, "ok", NoVal, "none")
    ELSE IF io_ok THEN Ret([p EXCEPT !.modified = FALSE], "ok", NoVal, "ok")
    ELSE Ret([p EXCEPT !.modified = FALSE], "IOError", NoVal, "raised")

\* TagParser.save; io_ok is whether the native entry's save succeeds
save(p, io_ok) ==
    IF ~p.modified THEN Ret(p, "ok", NoVal, "none")
    ELSE IF io_ok THEN Ret(p, "ok", NoVal, "ok")
    ELSE Ret(p, "IOError", NoVal, "raised")

(***************************************************************************)
(* Spec: one parser, loaded from some file, and a caller invoking its      *)
(* methods.  last records the latest call; its tick tells two successive   *)
(* calls of the same method apart.                                         *)
(***************************************************************************)
Call(op, arg, value, r) ==
    /\ parser' = r.p
    /\ last' = [op |-> op, arg |-> arg, args |-> <<>>, value |-> value,
                status |-> r.status, val |-> r.val, native |-> r.native,
                tick |-> 1 - last.tick]
    /\ UNCHANGED <<concVars, loadVars, numVars, restVars>>

NoCall == [op |-> "init", arg |-> "", args |-> <<>>, value |-> "", status |-> "ok",
           val |-> NoVal, native |-> "none", tick |-> 0]

GetTag == \E n \in Names : Call("get_tag", n, "", get_tag(parser, n))

SetTag == \E n \in Names, v \in TextValues : Call("set_tag", n, v, set_tag(parser, n, v))

DelItem == \E n \in Names : Call("delitem", n, "", delitem(parser, n))

Keys == Call("keys", "", "", keys(parser))

Save == \E io_ok \in BOOLEAN : Call("save", "", "", save(parser, io_ok))

ConcIdle ==
    /\ cache = <<>>
    /\ inst = <<>>
    /\ disk = <<>>
    /\ pc = <<>>
    /\ wpath = <<>>
    /\ cur = <<>>

Init ==
    /\ \E e \in LoadableEntries, m \in TagMaps : parser = NewParser(e, m)
    /\ last = NoCall
    /\ ConcIdle
    /\ LoadIdle
    /\ NumIdle
    /\ ArtIdle
    /\ XcIdle
    /\ MoreIdle

Next == GetTag \/ SetTag \/ DelItem \/ Keys \/ Save

Spec == Init /\ [][Next]_vars

(***************************************************************************)
(* Properties of one parser (Spec).                                        *)
(***************************************************************************)
\* The step is a call of method op.
Called(op) == last'.op = op /\ last'.tick # last.tick

NoDuplicates(s) == \A i, j \in 1..Len(s) : s[i] = s[j] => i = j
IndexIn(s, x) == Min({i \in 1..Len(s) : s[i] = x})
HasFields(p, n) == ~tag2fields(p.tag_map, n).none
AnyPresent(p, n) == \E f \in Range(tag2fields(p.tag_map, n).fields) : f \in DOMAIN p.entry

\* C1: of two consecutive save() calls the second, following a save() that
\* returned normally, finds the modified flag false and does not call the
\* native entry's save.
C1_IdempotentSave ==
    [][(last.op = "save" /\ last.status = "ok" /\ Called("save"))
          => (~parser.modified /\ last'.native = "none")]_vars

\* C2: a save() called while the modified flag is false does not call the
\* native entry's save and leaves the entry and the flag as they were.
C2_SaveUnmodifiedNoIO ==
    [][(Called("save") /\ ~parser.modified)
          => (last'.native = "none" /\ last'.status = "ok" /\ parser' = parser)]_vars

C2_Witness ==
    /\ last.op = "save"
    /\ ~parser.modified
    /\ last.native = "none"
    /\ DOMAIN parser.entry # {}

\* C7: set_tag(name, value) of a name that resolves to a field list succeeds,
\* and afterwards get_tag(name) returns exactly value and has_key(name) is true.
C7_RoundTrip ==
    [][(Called("set_tag") /\ HasFields(parser, last'.arg))
          => /\ last'.status = "ok"
             /\ get_tag(parser', last'.arg).status = "ok"
             /\ get_tag(parser', last'.arg).val = <<last'.value>>
             /\ has_key(parser', last'.arg).val = <<"True">>]_vars

\* set_tag("comment", "a") was called while DESC, a later candidate of
\* "comment", held another value.
C7_Witness ==
    /\ last.op = "set_tag"
    /\ last.arg = "comment"
    /\ last.status = "ok"
    /\ "DESC" \in DOMAIN parser.entry
    /\ "COMM" \in DOMAIN parser.entry
    /\ parser.entry["DESC"] # parser.entry["COMM"]

\* C8: when the native entry's save raises, save() raises to its caller and
\* leaves the parser, its modified flag still true, as it was; the save()
\* that follows calls the native save again.
C8_FailedSaveKeepsDirty ==
    [][/\ (Called("save") /\ last'.native = "raised")
            => (last'.status = "IOError" /\ parser'.modified /\ parser' = parser)
       /\ (last.op = "save" /\ last.native = "raised" /\ Called("save"))
            => last'.native # "none"]_vars

C8_Witness ==
    /\ last.op = "save"
    /\ last.native = "raised"
    /\ last.status = "IOError"
    /\ parser.modified

\* C9: keys() holds each name once, the names of the entry's fields exactly,
\* the names of STANDARD_TAG_ORDER first and in that order, the other names
\* after them in the order the entry's fields are met.
C9_KeysOrdering ==
    last.op = "keys" =>
        LET k == last.val
            ek == EntryKeys(parser.entry)
            met == [i \in 1..Len(ek) |-> field2tag(parser.tag_map, ek[i])]
            std == Range(STANDARD_TAG_ORDER)
        IN  /\ NoDuplicates(k)
            /\ Range(k) = Range(met)
            /\ \A i, j \in 1..Len(k) : (i < j /\ k[j] \in std) => k[i] \in std
            /\ \A i, j \in 1..Len(k) : (i < j /\ k[i] \in std /\ k[j] \in std)
                   => IndexIn(STANDARD_TAG_ORDER, k[i]) < IndexIn(STANDARD_TAG_ORDER, k[j])
            /\ \A i, j \in 1..Len(k) : (i < j /\ k[i] \notin std /\ k[j] \notin std)
                   => IndexIn(met, k[i]) <= IndexIn(met, k[j])

\* C10: get_tag of a name that resolves to a field list none of whose fields
\* is present raises the no-such-tag error and changes neither the modified
\* flag nor any field of the entry.
C10_GetMissingTag ==
    [][(Called("get_tag") /\ HasFields(parser, last'.arg) /\ ~AnyPresent(parser, last'.arg))
          => (last'.status = "TagError: No such tag" /\ parser' = parser)]_vars

\* get_tag("comment") failed on a modified parser that holds other fields.
C10_Witness ==
    /\ last.op = "get_tag"
    /\ last.arg = "comment"
    /\ last.status = "TagError: No such tag"
    /\ parser.modified
    /\ DOMAIN parser.entry # {}

(***************************************************************************)
(* SpecConc: the Tags facade and its cache under worker threads.  Worker t *)
(* runs  tags = Tags(wpath[t]); tags.set_tag(WTag(t), WValue(t));          *)
(* tags.tags.save()  and may be preempted between any two of the steps     *)
(* below.  Nothing in tagparser.py takes a lock.                           *)
(***************************************************************************)
Threads == 1..NumThreads

\* The path arguments workers pass; the working directory is /m.
RawPaths == {"a.mp3", "/m/a.mp3", "/m/b.mp3"}

\* normalized(os.path.realpath(path))
realpath(path) == IF path = "a.mp3" THEN "/m/a.mp3" ELSE path

Files == {realpath(path) : path \in RawPaths}

\* The tag block every file holds at the start.
StoredEntry == [f \in {"COMM"} |-> List(<<U("x")>>)]

\* What worker t writes: each worker its own tag.
WTag(t) == CASE t = 1 -> "album_artist" [] t = 2 -> "title" [] OTHER -> "XTRA"
WValue(t) == "a"

\* Tags.TagParserInstance.__init__ and load_tags: the instance loaded from the file
NewInstance(path) ==
    [key |-> path, path |-> realpath(path),
     tags |-> NewParser(disk[realpath(path)], TagMap1)]

\* Tags.__getattr__: the instance the facade of worker t delegates to right now
Delegate(t) == cache[wpath[t]]

\* A cache lookup that waits while another worker is loading: one lock around
\* the cache, held from the lookup to the insert
TagsCheck_global_lock(t) ==
    /\ pc[t] = "check"
    /\ \A u \in Threads \ {t} : pc[u] \notin {"load", "store"}
    /\ pc' = [pc EXCEPT ![t] = IF cache[wpath[t]] # 0 THEN "set_tag" ELSE "load"]
    /\ UNCHANGED <<cache, inst, disk, wpath, cur, seqVars, loadVars, numVars, restVars>>

\* Tags.__init__, the lookup: if not Tags.__instances.has_key(path)
TagsCheck(t) ==
    /\ pc[t] = "check"
    /\ pc' = [pc EXCEPT ![t] = IF cache[wpath[t]] # 0 THEN "set_tag" ELSE "load"]
    /\ UNCHANGED <<cache, inst, disk, wpath, cur, seqVars, loadVars, numVars, restVars>>

\* Tags.__init__, the construction: Tags.TagParserInstance(path, fileformat)
TagsLoad(t) ==
    /\ pc[t] = "load"
    /\ inst' = Append(inst, NewInstance(wpath[t]))
    /\ cur' = [cur EXCEPT ![t] = Len(inst) + 1]
    /\ pc' = [pc EXCEPT ![t] = "store"]
    /\ UNCHANGED <<cache, disk, wpath, seqVars, loadVars, numVars, restVars>>

\* Tags.__init__, the insert: Tags.__instances[path] = <the new instance>
TagsStore(t) ==
    /\ pc[t] = "store"
    /\ cache' = [cache EXCEPT ![wpath[t]] = cur[t]]
    /\ pc' = [pc EXCEPT ![t] = "set_tag"]
    /\ UNCHANGED <<inst, disk, wpath, cur, seqVars, loadVars, numVars, restVars>>

\* Tags.TagParserInstance.set_tag through the facade
FacadeSetTag(t) ==
    /\ pc[t] = "set_tag"
    /\ inst' = [inst EXCEPT ![Delegate(t)].tags = set_tag(@, WTag(t), WValue(t)).p]
    /\ pc' = [pc EXCEPT ![t] = "save"]
    /\ UNCHANGED <<cache, disk, wpath, cur, seqVars, loadVars, numVars, restVars>>

\* TagParser.save up to the call of the native save: the test of modified
SaveBegin(t) ==
    /\ pc[t] = "save"
    /\ IF save(inst[Delegate(t)].tags, TRUE).native = "none"
       THEN pc' = [pc EXCEPT ![t] = "done"] /\ cur' = cur
       ELSE pc' = [pc EXCEPT ![t] = "write"] /\ cur' = [cur EXCEPT ![t] = Delegate(t)]
    /\ UNCHANGED <<cache, inst, disk, wpath, seqVars, loadVars, numVars, restVars>>

\* TagParser.save, self.entry.save(): the entry replaces the file's tag block
SaveWrite(t) ==
    /\ pc[t] = "write"
    /\ disk' = [disk EXCEPT ![inst[cur[t]].path] = save(inst[cur[t]].tags, TRUE).p.entry]
    /\ pc' = [pc EXCEPT ![t] = "done"]
    /\ UNCHANGED <<cache, inst, wpath, cur, seqVars, loadVars, numVars, restVars>>

WorkerStep(t) ==
    \/ TagsCheck(t)
    \/ TagsLoad(t)
    \/ TagsStore(t)
    \/ FacadeSetTag(t)
    \/ SaveBegin(t)
    \/ SaveWrite(t)

InitConc ==
    /\ parser = <<>>
    /\ last = NoCall
    /\ cache = [path \in RawPaths |-> 0]
    /\ inst = <<>>
    /\ disk = [f \in Files |-> StoredEntry]
    /\ pc = [t \in Threads |-> "check"]
    /\ wpath \in [Threads -> RawPaths]
    /\ cur = [t \in Threads |-> 0]
    /\ LoadIdle
    /\ NumIdle
    /\ ArtIdle
    /\ XcIdle
    /\ MoreIdle

NextConc == \E t \in Threads : WorkerStep(t)

SpecConc == InitConc /\ [][NextConc]_vars

(***************************************************************************)
(* Properties of the cache and the workers (SpecConc).                     *)
(***************************************************************************)
AllDone == \A t \in Threads : pc[t] = "done"

\* What worker t's set_tag makes of an entry.
Written(t, entry) == set_tag(NewParser(entry, TagMap1), WTag(t), WValue(t)).p.entry

\* The entries that applying the writes of the workers W, one worker after
\* the other in some order, makes of entry.
RECURSIVE SerialResults(_, _)
SerialResults(W, entry) ==
    IF W = {} THEN {entry}
    ELSE UNION {SerialResults(W \ {t}, Written(t, entry)) : t \in W}

WorkersOn(f) == {t \in Threads : realpath(wpath[t]) = f}

\* C3: two cache entries whose paths resolve to the same file are the same
\* instance, so each name reads the same through both.
C3_CacheIdentity ==
    \A p1, p2 \in RawPaths :
        (cache[p1] # 0 /\ cache[p2] # 0 /\ realpath(p1) = realpath(p2))
            => /\ cache[p1] = cache[p2]
               /\ \A n \in Names :
                      get_tag(inst[cache[p1]].tags, n) = get_tag(inst[cache[p2]].tags, n)

\* C4: once every worker has finished, a file two or more workers wrote to
\* holds, on disk and in every instance cached for it, the result of the
\* workers' writes applied in some serial order.
C4_NoLostUpdate ==
    AllDone =>
        \A f \in Files :
            Cardinality(WorkersOn(f)) >= 2
                => /\ disk[f] \in SerialResults(WorkersOn(f), StoredEntry)
                   /\ \A path \in RawPaths :
                          (realpath(path) = f /\ cache[path] # 0)
                              => inst[cache[path]].tags.entry
                                     \in SerialResults(WorkersOn(f), StoredEntry)

\* C5: no two instances are ever loaded for the same path argument.
C5_OneInstancePerPath ==
    \A i, j \in 1..Len(inst) : inst[i].key = inst[j].key => i = j

\* C6: while a worker is between the lookup and the insert of a load, or
\* between the test and the write of a save, every unfinished worker on a
\* different file can take its next step.
C6_DistinctFilesIndependent ==
    \A t, u \in Threads :
        (/\ pc[t] \in {"load", "store", "write"}
         /\ pc[u] # "done"
         /\ realpath(wpath[t]) # realpath(wpath[u]))
            => ENABLED WorkerStep(u)

\* Worker 1 is in the native save of one file while worker 2, on another
\* file, has loaded its instance and is about to insert it.
C6_Witness ==
    /\ pc[1] = "write"
    /\ pc[2] = "store"
    /\ realpath(wpath[1]) # realpath(wpath[2])

(***************************************************************************)
(* SpecRead: one parser, loaded from some file, and a caller reading it    *)
(* and deleting tags, by canonical names and by literal field names.       *)
(***************************************************************************)
ReadNames == Names \cup Fields

HasKey == \E n \in ReadNames : Call("has_key", n, "", has_key(parser, n))

GetItem == \E n \in ReadNames : Call("getitem", n, "", getitem(parser, n))

ReadKeys == Call("keys", "", "", keys(parser))

Delete == \E n \in ReadNames : Call("delitem", n, "", delitem(parser, n))

ReadItems == Call("items", "", "", items(parser))

ReadValues == Call("values", "", "", values(parser))

NextRead == HasKey \/ GetItem \/ ReadKeys \/ Delete \/ ReadItems \/ ReadValues

SpecRead == Init /\ [][NextRead]_vars

(***************************************************************************)
(* Properties of reads and deletes (SpecRead).                             *)
(***************************************************************************)
Candidates(p, n) == Range(tag2fields(p.tag_map, n).fields)

\* The text an element reads as.
TextOf(e) == IF e.kind = "int" THEN Dec(e.n) ELSE e.s

\* C13: has_key of any name, a name the tag map maps to no field list
\* included, returns True or False, and keys() returns its list; neither
\* raises.
C13_HasKeyKeysNeverRaise ==
    /\ last.op = "has_key" =>
           (last.status = "ok" /\ last.val \in {<<"True">>, <<"False">>})
    /\ last.op = "keys" => last.status = "ok"

\* C17: tags[name], for a name that resolves to a field list, raises KeyError
\* exactly when no candidate field is present; otherwise it gives the
\* elements of the first candidate present, each as text (an integer in
\* decimal), or raises the decoding TagError when one of them does not
\* decode; it changes nothing.
C17_GetFirstCandidate ==
    [][(Called("getitem") /\ HasFields(parser, last'.arg))
          => LET f == tag2fields(parser.tag_map, last'.arg).fields
                 present == {i \in 1..Len(f) : f[i] \in DOMAIN parser.entry}
             IN  /\ parser' = parser
                 /\ (last'.status = "KeyError") <=> (present = {})
                 /\ present # {} =>
                        LET elems == parser.entry[f[Min(present)]].elems
                        IN  IF \A i \in 1..Len(elems) : elems[i].kind # "badstr"
                            THEN /\ last'.status = "ok"
                                 /\ last'.val = [i \in 1..Len(elems) |-> TextOf(elems[i])]
                            ELSE last'.status = "TagError: Error decoding"]_vars

\* tags["comment"] gave the value of COMM while DESC, the later candidate,
\* held another value.
C17_Witness ==
    /\ last.op = "getitem"
    /\ last.arg = "comment"
    /\ last.status = "ok"
    /\ last.val = <<"x">>
    /\ "DESC" \in DOMAIN parser.entry
    /\ parser.entry["DESC"].elems = <<U("y"), U("x")>>

\* C18: del tags[name], for a name that resolves to a field list, raises
\* nothing, removes exactly the candidate fields present, leaves every other
\* field as it was, and sets modified exactly when it removed a field.
C18_DeleteFrame ==
    [][(Called("delitem") /\ HasFields(parser, last'.arg))
          => LET gone == Candidates(parser, last'.arg) \cap DOMAIN parser.entry
             IN  /\ last'.status = "ok"
                 /\ DOMAIN parser'.entry = DOMAIN parser.entry \ gone
                 /\ \A f \in DOMAIN parser'.entry : parser'.entry[f] = parser.entry[f]
                 /\ parser'.modified = (parser.modified \/ gone # {})
                 /\ parser'.tag_map = parser.tag_map]_vars

\* del tags["comment"] has removed COMM and DESC and left TPE2.
C18_Witness ==
    /\ last.op = "delitem"
    /\ last.arg = "comment"
    /\ last.status = "ok"
    /\ parser.modified
    /\ DOMAIN parser.entry \cap {"COMM", "DESC"} = {}
    /\ "TPE2" \in DOMAIN parser.entry

\* C19: has_key(name), for a name that resolves to a field list, is True
\* exactly when a candidate field is present; it is False right after
\* del tags[name]; and tags[name] raises KeyError exactly when it is False.
C19_HasKeyIffPresent ==
    [][/\ (Called("has_key") /\ HasFields(parser, last'.arg))
            => /\ last'.status = "ok"
               /\ (last'.val = <<"True">>) <=> AnyPresent(parser, last'.arg)
       /\ (Called("delitem") /\ HasFields(parser, last'.arg))
            => has_key(parser', last'.arg).val = <<"False">>
       /\ (Called("getitem") /\ HasFields(parser, last'.arg))
            => ((last'.status = "KeyError")
                    <=> (has_key(parser, last'.arg).val = <<"False">>))]_vars

\* has_key("comment") returned False on a parser tags have been deleted from.
C19_Witness ==
    /\ last.op = "has_key"
    /\ last.arg = "comment"
    /\ last.val = <<"False">>
    /\ parser.modified
    /\ DOMAIN parser.entry # {}

(***************************************************************************)
(* SpecFacade: one Tags.TagParserInstance over its parser, and a caller    *)
(* invoking update_tags and remove_tags.  A dictionary of tags is the list *)
(* of its names in items() order, every name with the same value; what is  *)
(* passed in place of a dictionary may also be no dictionary.              *)
(***************************************************************************)
Bool(b) == IF b THEN <<"True">> ELSE <<"False">>

\* The loop of TagParser.update_tags: set_tag for each item, up to the first
\* that raises
RECURSIVE SetEach(_, _, _)
SetEach(p, names, value) ==
    IF names = <<>> THEN Ret(p, "ok", NoVal, "none")
    ELSE LET r == set_tag(p, Head(names), value)
         IN  IF r.status # "ok" THEN r ELSE SetEach(r.p, Tail(names), value)

\* update_tags reporting whether it set a tag, not the modified flag
update_tags_reports_set(p, isdict, names, value) ==
    IF ~isdict THEN Ret(p, "TagError: Updated tags must be a dictionary", NoVal, "none")
    ELSE LET r == SetEach(p, names, value)
         IN  IF r.status # "ok" THEN r ELSE Ret(r.p, "ok", Bool(names # <<>>), "none")

\* TagParser.update_tags: val is the modified flag it returns
update_tags(p, isdict, names, value) ==
    IF ~isdict THEN Ret(p, "TagError: Updated tags must be a dictionary", NoVal, "none")
    ELSE LET r == SetEach(p, names, value)
         IN  IF r.status # "ok" THEN r ELSE Ret(r.p, "ok", Bool(r.p.modified), "none")

\* Tags.TagParserInstance.update_tags
facade_update_tags(p, isdict, names, value, io_ok) ==
    LET u == update_tags(p, isdict, names, value)
    IN  IF u.status # "ok" THEN u
        ELSE IF u.val = <<"True">> THEN save(u.p, io_ok)
        ELSE Ret(u.p, "ok", NoVal, "none")

\* The loop of remove_tags deleting every listed tag, present or not
RECURSIVE RemoveEach_no_skip(_, _)
RemoveEach_no_skip(p, names) ==
    IF names = <<>> THEN Ret(p, "ok", NoVal, "none")
    ELSE LET r == delitem(p, Head(names))
         IN  IF r.status # "ok" THEN r ELSE RemoveEach_no_skip(r.p, Tail(names))

\* The loop of Tags.TagParserInstance.remove_tags: del self.tags[tag] for each
\* tag that is in self.keys()
RECURSIVE RemoveEach(_, _)
RemoveEach(p, names) ==
    IF names = <<>> THEN Ret(p, "ok", NoVal, "none")
    ELSE IF Head(names) \notin Range(keys(p).val) THEN RemoveEach(p, Tail(names))
    ELSE LET r == delitem(p, Head(names))
         IN  IF r.status # "ok" THEN r ELSE RemoveEach(r.p, Tail(names))

\* Tags.TagParserInstance.remove_tags
facade_remove_tags(p, names, io_ok) ==
    LET r == RemoveEach(p, names)
    IN  IF r.status # "ok" THEN r
        ELSE IF r.p.modified THEN save(r.p, io_ok)
        ELSE Ret(r.p, "ok", NoVal, "none")

\* The dictionaries (by their names) and the lists of names callers pass.
UpdateArgs == {<<>>, <<"album_artist">>, <<"comment", "XTRA">>, <<"title", "internal">>}
RemoveArgs == {<<>>, <<"comment">>, <<"COMM">>, <<"album_artist", "XTRA">>,
               <<"internal", "title">>}

CallF(op, arg, args, value, r) ==
    /\ parser' = r.p
    /\ last' = [op |-> op, arg |-> arg, args |-> args, value |-> value,
                status |-> r.status, val |-> r.val, native |-> r.native,
                tick |-> 1 - last.tick]
    /\ UNCHANGED <<concVars, loadVars, numVars, restVars>>

UpdateTags ==
    \E names \in UpdateArgs, v \in TextValues, io_ok \in BOOLEAN :
        CallF("update_tags", "dict", names, v,
              facade_update_tags(parser, TRUE, names, v, io_ok))

UpdateTagsNoDict ==
    \E io_ok \in BOOLEAN :
        CallF("update_tags", "nodict", <<>>, "",
              facade_update_tags(parser, FALSE, <<>>, "", io_ok))

RemoveTags ==
    \E names \in RemoveArgs, io_ok \in BOOLEAN :
        CallF("remove_tags", "", names, "", facade_remove_tags(parser, names, io_ok))

NextFacade == UpdateTags \/ UpdateTagsNoDict \/ RemoveTags

SpecFacade == Init /\ [][NextFacade]_vars

(***************************************************************************)
(* Properties of the facade (SpecFacade).                                  *)
(***************************************************************************)
\* C14: update_tags of a dictionary whose names all resolve to field lists
\* sets every entry of it, and calls the native save exactly when the parser
\* is modified afterwards; a parser left unmodified is left as it was and
\* nothing is written.
C14_UpdateTagsSavesIffModified ==
    [][(Called("update_tags") /\ last'.arg = "dict"
            /\ \A n \in Range(last'.args) : HasFields(parser, n))
          => /\ last'.status \in {"ok", "IOError"}
             /\ \A n \in Range(last'.args) :
                    /\ get_tag(parser', n).status = "ok"
                    /\ get_tag(parser', n).val = <<last'.value>>
             /\ (last'.native # "none") <=> parser'.modified
             /\ ~parser'.modified => parser' = parser]_vars

\* update_tags({}) on a modified parser has called the native save.
C14_Witness ==
    /\ last.op = "update_tags"
    /\ last.arg = "dict"
    /\ last.args = <<>>
    /\ last.native = "ok"
    /\ parser.modified

C20_RemovedTagsAbsent ==
    [][(Called("remove_tags") /\ last'.status = "ok")
          => \A n \in Range(last'.args) : has_key(parser', n).val # <<"True">>]_vars

(***************************************************************************)
(* SpecLoad: one caller constructing Tags(path), one call after the other, *)
(* over files that may be missing, of no known codec, metadata files or    *)
(* without a tag parser, and that may change between two calls.           *)
(***************************************************************************)
File(exists, codec, metadata, hasparser) ==
    [exists |-> exists, codec |-> codec, metadata |-> metadata, parser |-> hasparser]

GoodFile == File(TRUE, TRUE, FALSE, TRUE)

\* What a file may be: an audio file with a parser, or not a file, or a file
\* with one of the defects load checks for.
FileStates ==
    {GoodFile, File(FALSE, FALSE, FALSE, FALSE), File(TRUE, FALSE, FALSE, FALSE),
     File(TRUE, TRUE, TRUE, FALSE), File(TRUE, TRUE, FALSE, FALSE)}

TagErrors ==
    {"TagError: No such file", "TagError: Unsupported audio file",
     "TagError: Attempting to load audio tags from metadata file",
     "TagError: No tag parser available"}

\* load_tags without the test of fileformat.is_metadata
LoadStatus_no_metadata_test(file) ==
    IF ~file.exists THEN "TagError: No such file"
    ELSE IF ~file.codec THEN "TagError: Unsupported audio file"
    ELSE IF ~file.parser /\ ~file.metadata THEN "TagError: No tag parser available"
    ELSE "ok"

\* Tags.TagParserInstance.__init__ and load_tags: how the load of a file ends
LoadStatus(file) ==
    IF ~file.exists THEN "TagError: No such file"
    ELSE IF ~file.codec THEN "TagError: Unsupported audio file"
    ELSE IF file.metadata THEN "TagError: Attempting to load audio tags from metadata file"
    ELSE IF ~file.parser THEN "TagError: No tag parser available"
    ELSE "ok"

LoadCall(path, status) ==
    [path |-> path, status |-> status, tick |-> 1 - lcall.tick]

\* Tags.__init__ for a path that has a cache entry
TagsCached(path) ==
    /\ cache[path] # 0
    /\ lcall' = LoadCall(path, "ok")
    /\ UNCHANGED <<cache, inst, disk, pc, wpath, cur, files, failed, seqVars, numVars, restVars>>

\* Tags.__init__ for a path without a cache entry, the load succeeding
TagsLoaded(path) ==
    /\ cache[path] = 0
    /\ LoadStatus(files[realpath(path)]) = "ok"
    /\ inst' = Append(inst, NewInstance(path))
    /\ cache' = [cache EXCEPT ![path] = Len(inst) + 1]
    /\ lcall' = LoadCall(path, "ok")
    /\ UNCHANGED <<disk, pc, wpath, cur, files, failed, seqVars, numVars, restVars>>

\* Tags.__init__ for a path without a cache entry, the load raising
TagsFailed(path) ==
    /\ cache[path] = 0
    /\ LoadStatus(files[realpath(path)]) # "ok"
    /\ lcall' = LoadCall(path, LoadStatus(files[realpath(path)]))
    /\ failed' = failed \cup {path}
    /\ UNCHANGED <<cache, inst, disk, pc, wpath, cur, files, seqVars, numVars, restVars>>

\* Between two calls a file is created, removed or replaced.
FileChanges(f) ==
    /\ \E fs \in FileStates \ {files[f]} : files' = [files EXCEPT ![f] = fs]
    /\ UNCHANGED <<cache, inst, disk, pc, wpath, cur, lcall, failed, seqVars, numVars, restVars>>

InitLoad ==
    /\ parser = <<>>
    /\ last = NoCall
    /\ cache = [path \in RawPaths |-> 0]
    /\ inst = <<>>
    /\ disk = [f \in Files |-> StoredEntry]
    /\ pc = <<>>
    /\ wpath = <<>>
    /\ cur = <<>>
    /\ files \in [Files -> FileStates]
    /\ lcall = [path |-> "", status |-> "ok", tick |-> 0]
    /\ failed = {}
    /\ NumIdle
    /\ ArtIdle
    /\ XcIdle
    /\ MoreIdle

NextLoad ==
    \/ \E path \in RawPaths : TagsCached(path) \/ TagsLoaded(path) \/ TagsFailed(path)
    \/ \E f \in Files : FileChanges(f)

SpecLoad == InitLoad /\ [][NextLoad]_vars

(***************************************************************************)
(* Properties of loading (SpecLoad).                                       *)
(***************************************************************************)
Constructed == lcall'.tick # lcall.tick

Unloadable(file) == ~file.exists \/ file.metadata \/ ~file.codec \/ ~file.parser

\* C11: Tags(path) for a path without a cache entry raises TagError when the
\* file does not exist, is a metadata file, has no codec or has no tag
\* parser, and then leaves the cache as it was; a Tags(path) that finds the
\* file loadable loads it and inserts it, whatever failed before.
C11_LoadFailureLeavesCache ==
    [][(Constructed /\ cache[lcall'.path] = 0)
          => IF Unloadable(files[realpath(lcall'.path)])
             THEN /\ lcall'.status \in TagErrors
                  /\ cache' = cache
                  /\ inst' = inst
             ELSE /\ lcall'.status = "ok"
                  /\ cache'[lcall'.path] # 0
                  /\ inst'[cache'[lcall'.path]].path = realpath(lcall'.path)]_vars

\* Tags(path) has succeeded for a path it had failed for before.
C11_Witness ==
    /\ lcall.status = "ok"
    /\ lcall.path \in failed
    /\ cache[lcall.path] # 0

\* C12: the cache holds one entry for each resolved path loaded, and every
\* instance ever inserted is still the entry of its path.
C12_OneEntryPerResolvedPath ==
    /\ \A f \in Files :
           Cardinality({path \in RawPaths : realpath(path) = f /\ cache[path] # 0}) <= 1
    /\ \A i \in 1..Len(inst) : cache[inst[i].key] = i

(***************************************************************************)
(* SpecNum: one TrackNumberingTag.  A number or None is [some, n]; what a  *)
(* caller assigns to value or total is an int, None, a text that is or is  *)
(* not a number, another object, or a list whose first element (inner) is  *)
(* one of these, or an empty list.                                         *)
(***************************************************************************)
None == [some |-> FALSE, n |-> 0]
Some(n) == [some |-> TRUE, n |-> n]

Assigned(kind, inner, n) == [kind |-> kind, inner |-> inner, n |-> n]

Assignables ==
    {Assigned(k, "", n) : k \in {"int", "text"}, n \in 0..MaxNum}
        \cup {Assigned(k, "", 0) : k \in {"none", "badtext", "object"}}
        \cup {Assigned("list", k, n) : k \in {"int", "text"}, n \in {MaxNum}}
        \cup {Assigned("list", k, 0) : k \in {"none", "badtext", "empty"}}

\* TrackNumberingTag.__init__
NewNumbering == [f_value |-> None, f_total |-> None]

\* TrackNumberingTag.__setattr__, the coercion: the first element of a list,
\* then int() of anything but None
Coerce(a) ==
    LET k == IF a.kind = "list" THEN a.inner ELSE a.kind
    IN  CASE k = "empty"              -> [status |-> "IndexError", v |-> None]
          [] k = "none"               -> [status |-> "ok", v |-> None]
          [] k \in {"int", "text"}    -> [status |-> "ok", v |-> Some(a.n)]
          [] k \in {"badtext", "object"} ->
                 [status |-> "TagError: TrackNumberingTag values must be integers",
                  v |-> None]

\* TrackNumberingTag.__setattr__ for attr 'value' or 'total'
setattr(t, attr, a) ==
    LET c == Coerce(a)
    IN  IF c.status # "ok" THEN [t |-> t, status |-> c.status]
        ELSE IF attr = "value" THEN [t |-> [t EXCEPT !.f_value = c.v], status |-> "ok"]
        ELSE [t |-> [t EXCEPT !.f_total = c.v], status |-> "ok"]

\* __repr__ formatting the value alone, whether or not total is set
repr_value_only(t) ==
    IF ~t.f_value.some THEN [status |-> "TypeError", text |-> ""]
    ELSE [status |-> "ok", text |-> Dec(t.f_value.n)]

\* TrackNumberingTag.__repr__: '%d/%d' or '%d'; %d of None raises TypeError
repr(t) ==
    IF t.f_total.some
    THEN IF ~t.f_value.some THEN [status |-> "TypeError", text |-> ""]
         ELSE [status |-> "ok", text |-> Dec(t.f_value.n) \o "/" \o Dec(t.f_total.n)]
    ELSE IF ~t.f_value.some THEN [status |-> "TypeError", text |-> ""]
         ELSE [status |-> "ok", text |-> Dec(t.f_value.n)]

\* save_tag of a codec's numbering tag: nothing is written when value is
\* None; else value and total, total being value when it is None
save_tag(t, stored) ==
    IF ~t.f_value.some THEN [stored |-> stored, wrote |-> FALSE]
    ELSE [stored |-> [some |-> TRUE, value |-> t.f_value.n,
                      total |-> IF t.f_total.some THEN t.f_total.n ELSE t.f_value.n],
          wrote |-> TRUE]

NoNumbering == [some |-> FALSE, value |-> 0, total |-> 0]

\* The numbering tag a stored numbering loads as.
Loaded(stored) == [f_value |-> Some(stored.value), f_total |-> Some(stored.total)]

NoArg == Assigned("", "", 0)

NumCall(op, attr, arg, status, text, wrote) ==
    [op |-> op, attr |-> attr, arg |-> arg, status |-> status, text |-> text,
     wrote |-> wrote, tick |-> 1 - ncall.tick]

SetAttr ==
    \E attr \in {"value", "total"}, a \in Assignables :
        /\ num' = setattr(num, attr, a).t
        /\ ncall' = NumCall("setattr", attr, a, setattr(num, attr, a).status, "", FALSE)
        /\ UNCHANGED <<nentry, seqVars, concVars, loadVars, restVars>>

Repr ==
    /\ ncall' = NumCall("repr", "", NoArg, repr(num).status, repr(num).text, FALSE)
    /\ UNCHANGED <<num, nentry, seqVars, concVars, loadVars, restVars>>

SaveTag ==
    /\ nentry' = save_tag(num, nentry).stored
    /\ ncall' = NumCall("save_tag", "", NoArg, "ok", "", save_tag(num, nentry).wrote)
    /\ UNCHANGED <<num, seqVars, concVars, loadVars, restVars>>

InitNum ==
    /\ parser = <<>>
    /\ last = NoCall
    /\ ConcIdle
    /\ LoadIdle
    /\ ArtIdle
    /\ XcIdle
    /\ MoreIdle
    /\ num = NewNumbering
    /\ nentry = NoNumbering
    /\ ncall = [op |-> "init", attr |-> "", arg |-> NoArg, status |-> "ok",
                text |-> "", wrote |-> FALSE, tick |-> 0]

NextNum == SetAttr \/ Repr \/ SaveTag

SpecNum == InitNum /\ [][NextNum]_vars

(***************************************************************************)
(* Properties of the numbering tag (SpecNum).                              *)
(***************************************************************************)
NumCalled(op) == ncall'.op = op /\ ncall'.tick # ncall.tick

\* C16: save_tag of a numbering whose value is v and whose total is None
\* writes value v and total v, which render as "v/v"; save_tag of a
\* numbering whose value is None writes nothing to the native entry.
C16_NumberingDefaulting ==
    [][NumCalled("save_tag")
          => /\ (num.f_value.some /\ ~num.f_total.some)
                    => /\ ncall'.wrote
                       /\ nentry'.some
                       /\ nentry'.value = num.f_value.n
                       /\ nentry'.total = num.f_value.n
                       /\ repr(Loaded(nentry')) =
                              [status |-> "ok",
                               text |-> Dec(num.f_value.n) \o "/" \o Dec(num.f_value.n)]
             /\ ~num.f_value.some => (~ncall'.wrote /\ nentry' = nentry)]_vars

\* save_tag has written value 2 and total 2 for a numbering whose total is None.
C16_Witness ==
    /\ ncall.op = "save_tag"
    /\ ncall.wrote
    /\ num.f_value = Some(2)
    /\ num.f_total = None
    /\ nentry = [some |-> TRUE, value |-> 2, total |-> 2]

\* What set_value and set_total accept: an integer, None, or a list whose
\* first element is an integer or a text that is one.
Accepted(a) ==
    \/ a.kind \in {"int", "none"}
    \/ a.kind = "list" /\ a.inner \in {"int", "text"}

CoercionError == "TagError: TrackNumberingTag values must be integers"

\* C26: assigning value or total succeeds for an integer, a one-element list
\* of integer-coercible input and None; any other input (non-numeric text,
\* an empty list, another object) ends in the coercion TagError and leaves
\* value and total as they were; an assignment to one field never changes
\* the other.
C26_NumberingCoercion ==
    [][NumCalled("setattr")
          => /\ Accepted(ncall'.arg) => ncall'.status = "ok"
             /\ ncall'.arg.kind \in {"badtext", "object"}
                    \/ (ncall'.arg.kind = "list" /\ ncall'.arg.inner \in {"badtext", "empty"})
                    => (ncall'.status = CoercionError /\ num' = num)
             /\ ncall'.attr = "value" => num'.f_total = num.f_total
             /\ ncall'.attr = "total" => num'.f_value = num.f_value]_vars

\* C27: render gives "value/total" when total is set and "value" when it is
\* None, and fails whenever value is None, total set or not.
C27_Render ==
    [][NumCalled("repr")
          => IF ~num.f_value.some THEN ncall'.status # "ok"
             ELSE /\ ncall'.status = "ok"
                  /\ ncall'.text = IF num.f_total.some
                                   THEN Dec(num.f_value.n) \o "/" \o Dec(num.f_total.n)
                                   ELSE Dec(num.f_value.n)]_vars

\* render has returned "1/2"; render has failed with total set and value None.
C27_Witness ==
    /\ ncall.op = "repr"
    /\ \/ ncall.text = "1/2" /\ num.f_total = Some(2)
       \/ ncall.status = "TypeError" /\ num.f_total.some /\ ~num.f_value.some

(***************************************************************************)
(* Properties of items() and values() (SpecRead).                          *)
(***************************************************************************)
\* The tags of keys(), in order, whose value has a first element, each with
\* that element; computed from keys() and tags[name].
PresentPairs(p) ==
    LET ks == keys(p).val
        kept == SelectSeq([i \in 1..Len(ks) |-> i],
                          LAMBDA i : /\ getitem(p, ks[i]).status = "ok"
                                     /\ Len(getitem(p, ks[i]).val) > 0)
    IN  [j \in 1..Len(kept) |-> <<ks[kept[j]], getitem(p, ks[kept[j]]).val[1]>>]

\* Every value of the parser's keys() reads as text.
AllDecode(p) ==
    \A k \in Range(keys(p).val) : getitem(p, k).status \in {"ok", "KeyError"}

\* C21: items() lists, in keys() order, the tags of keys() whose value has a
\* first element, each paired with that element; values() is the list of the
\* second components of items(); neither changes the entry or the modified
\* flag.  (Either raises the decoding TagError when a value does not decode.)
C21_ItemsValues ==
    [][/\ Called("items") =>
              /\ parser' = parser
              /\ IF AllDecode(parser)
                 THEN last'.status = "ok" /\ last'.val = PresentPairs(parser)
                 ELSE last'.status = "TagError: Error decoding"
       /\ Called("values") =>
              /\ parser' = parser
              /\ last'.status = items(parser).status
              /\ last'.status = "ok" =>
                     /\ Len(last'.val) = Len(items(parser).val)
                     /\ \A j \in 1..Len(last'.val) :
                            last'.val[j] = items(parser).val[j][2]]_vars

\* items() has returned some pairs and has skipped a tag of keys(): comment,
\* whose first candidate field COMM holds an empty list.
C21_Witness ==
    /\ last.op = "items"
    /\ last.status = "ok"
    /\ "COMM" \in DOMAIN parser.entry
    /\ Len(parser.entry["COMM"].elems) = 0
    /\ Len(last.val) > 0
    /\ Len(keys(parser).val) > Len(last.val)

(***************************************************************************)
(* SpecMap: the two lookups of the tag map, on parsers with no tag map,    *)
(* with TagMap1 and with a tag map in which two names claim one field.     *)
(***************************************************************************)
TagMap2 ==
    << Item("comment", <<"COMM", "DESC">>),
       Item("description", <<"DESC">>),
       NoneItem("internal") >>

MapTagMaps == {<<>>, TagMap1, TagMap2}

MapEntries == {e \in LoadableEntries : DOMAIN e \subseteq {"DESC", "TPE2"}}

MapNames == Names \cup Fields \cup {"description"}

\* __tag2fields__(name); status "None" stands for the None it returns
Tag2Fields ==
    \E n \in MapNames :
        LET r == tag2fields(parser.tag_map, n)
        IN  Call("tag2fields", n, "",
                 Ret(parser, IF r.none THEN "None" ELSE "ok", r.fields, "none"))

\* __field2tag__(field)
Field2Tag ==
    \E f \in MapNames :
        Call("field2tag", f, "", Ret(parser, "ok", <<field2tag(parser.tag_map, f)>>, "none"))

InitMap ==
    /\ parser \in {NewParser(e, tm) : e \in MapEntries, tm \in MapTagMaps}
    /\ last = NoCall
    /\ ConcIdle
    /\ LoadIdle
    /\ NumIdle
    /\ ArtIdle
    /\ XcIdle
    /\ MoreIdle

NextMap == Tag2Fields \/ Field2Tag

SpecMap == InitMap /\ [][NextMap]_vars

\* C28: resolve_read(name) returns the field list the tag map holds for a
\* mapped name and the one-element list [name] for an unmapped one;
\* reverse(field) returns the first name of the tag map whose field list
\* holds the field, and the field itself when none does; neither changes
\* the parser.
C28_TagMapLookups ==
    [][/\ Called("tag2fields") =>
              LET m == parser.tag_map
                  n == last'.arg
              IN  /\ parser' = parser
                  /\ IF \E i \in 1..Len(m) : m[i].name = n
                     THEN \E i \in 1..Len(m) :
                              /\ m[i].name = n
                              /\ IF m[i].none THEN last'.status = "None"
                                 ELSE last'.status = "ok" /\ last'.val = m[i].fields
                     ELSE last'.status = "ok" /\ last'.val = <<n>>
       /\ Called("field2tag") =>
              LET m == parser.tag_map
                  f == last'.arg
                  claims(i) == ~m[i].none /\ f \in Range(m[i].fields)
              IN  /\ parser' = parser
                  /\ last'.status = "ok"
                  /\ IF \E i \in 1..Len(m) : claims(i)
                     THEN \E i \in 1..Len(m) :
                              /\ claims(i)
                              /\ \A j \in 1..(i - 1) : ~claims(j)
                              /\ last'.val = <<m[i].name>>
                     ELSE last'.val = <<f>>]_vars

\* reverse("DESC") has returned comment, the first of the two names that
\* claim DESC.
C28_Witness ==
    /\ last.op = "field2tag"
    /\ last.arg = "DESC"
    /\ parser.tag_map = TagMap2
    /\ last.val = <<"comment">>

(***************************************************************************)
(* SpecArt: one parser and the TrackAlbumart it owns.  What a caller       *)
(* passes is an AlbumArt object, loaded with image bytes or not, a text or *)
(* None.                                                                   *)
(***************************************************************************)
Value(kind, loaded, data) == [kind |-> kind, loaded |-> loaded, data |-> data]

NoArt == Value("none", FALSE, "")

ImageBytes == {"p", "q"}

AlbumArts == {Value("albumart", TRUE, b) : b \in ImageBytes}
                 \cup {Value("albumart", FALSE, "")}

Texts == {Value("text", FALSE, v) : v \in TextValues}

Values == AlbumArts \cup Texts \cup {NoArt}

\* What tags[item] = value is indexed with: a tag name or an AlbumArt object.
ItemKey(isart, name) == [isart |-> isart, name |-> name]

ItemKeys == {ItemKey(FALSE, n) : n \in {"title", "comment"}} \cup {ItemKey(TRUE, "")}

\* TrackAlbumart.__init__
NewAlbumart == [modified |-> FALSE, albumart |-> NoArt]

ArtErrors ==
    {"TagError: Albumart must be AlbumArt instance",
     "TagError: Albumart to import is not loaded with image."}

\* import_albumart without the test of albumart.is_loaded
import_albumart_no_loaded_test(a, albumart) ==
    IF albumart.kind # "albumart"
    THEN [a |-> a, status |-> "TagError: Albumart must be AlbumArt instance"]
    ELSE [a |-> [a EXCEPT !.albumart = albumart], status |-> "ok"]

\* TrackAlbumart.import_albumart
import_albumart(a, albumart) ==
    IF albumart.kind # "albumart"
    THEN [a |-> a, status |-> "TagError: Albumart must be AlbumArt instance"]
    ELSE IF ~albumart.loaded
    THEN [a |-> a, status |-> "TagError: Albumart to import is not loaded with image."]
    ELSE [a |-> [a EXCEPT !.albumart = albumart], status |-> "ok"]

\* TrackAlbumart.defined
defined(a) == a.albumart # NoArt

\* TrackAlbumart.as_base64_tag: the module has no name base64_tag, so the
\* call in the return statement raises NameError
as_base64_tag(a) ==
    IF a.albumart = NoArt
    THEN [status |-> "TagError: Albumart is not loaded", text |-> ""]
    ELSE [status |-> "NameError: global name 'base64_tag' is not defined", text |-> ""]

\* The native-field writer called from __setitem__: a text under a tag name
\* is written as set_tag writes it; for any other item or value the writer
\* is called and may or may not mark the parser modified (marks).
write_tag(p, item, value, marks) ==
    IF ~item.isart /\ value.kind = "text"
    THEN set_tag(p, item.name, value.data)
    ELSE Ret([p EXCEPT !.modified = p.modified \/ marks], "ok", NoVal, "none")

\* TagParser.__setitem__: calls lists the methods it has called, in order
setitem(p, a, item, value, marks) ==
    LET imp == import_albumart(a, value)
        w == write_tag(p, item, value, marks)
    IN  IF item.isart /\ imp.status # "ok"
        THEN [p |-> p, a |-> a, status |-> imp.status, calls |-> <<"import_albumart">>]
        ELSE [p |-> w.p,
              a |-> IF item.isart THEN imp.a ELSE a,
              status |-> w.status,
              calls |-> IF item.isart THEN <<"import_albumart", "set_tag">>
                        ELSE <<"set_tag">>]

ArtCall(op, item, value, status, calls, text) ==
    [op |-> op, item |-> item, value |-> value, status |-> status, calls |-> calls,
     text |-> text, tick |-> 1 - acall.tick]

SetItem ==
    \E item \in ItemKeys, value \in Values, marks \in BOOLEAN :
        LET r == setitem(parser, art, item, value, marks)
        IN  /\ parser' = r.p
            /\ art' = r.a
            /\ acall' = ArtCall("setitem", item, value, r.status, r.calls, "")
            /\ UNCHANGED <<last, concVars, loadVars, numVars, xcVars, moreVars>>

ImportAlbumart ==
    \E value \in Values :
        /\ art' = import_albumart(art, value).a
        /\ acall' = ArtCall("import_albumart", ItemKey(FALSE, ""), value,
                            import_albumart(art, value).status, <<>>, "")
        /\ UNCHANGED <<parser, last, concVars, loadVars, numVars, xcVars, moreVars>>

Defined ==
    /\ acall' = ArtCall("defined", ItemKey(FALSE, ""), NoArt, "ok", <<>>,
                        IF defined(art) THEN "True" ELSE "False")
    /\ UNCHANGED <<art, parser, last, concVars, loadVars, numVars, xcVars, moreVars>>

AsBase64Tag ==
    /\ acall' = ArtCall("as_base64_tag", ItemKey(FALSE, ""), NoArt,
                        as_base64_tag(art).status, <<>>, as_base64_tag(art).text)
    /\ UNCHANGED <<art, parser, last, concVars, loadVars, numVars, xcVars, moreVars>>

ArtEntries == {e \in LoadableEntries : DOMAIN e \subseteq {"title"}}

InitArt ==
    /\ parser \in {NewParser(e, TagMap1) : e \in ArtEntries}
    /\ last = NoCall
    /\ ConcIdle
    /\ LoadIdle
    /\ NumIdle
    /\ XcIdle
    /\ MoreIdle
    /\ art = NewAlbumart
    /\ acall = [op |-> "init", item |-> ItemKey(FALSE, ""), value |-> NoArt,
                status |-> "ok", calls |-> <<>>, text |-> "", tick |-> 0]

NextArt == SetItem \/ ImportAlbumart \/ Defined \/ AsBase64Tag

SpecArt == InitArt /\ [][NextArt]_vars

(***************************************************************************)
(* Properties of the artwork (SpecArt).                                    *)
(***************************************************************************)
ArtCalled(op) == acall'.op = op /\ acall'.tick # acall.tick

\* base64.b64encode of the image bytes of the model
b64encode(data) == IF data = "p" THEN "cA==" ELSE IF data = "q" THEN "cQ==" ELSE ""

\* C22: tags[item] = value with an AlbumArt object as value calls the
\* artwork import and not the native-field writer; with any other value it
\* calls the writer and not the import; a failing import ends in TagError.
C22_AssignmentDispatch ==
    [][ArtCalled("setitem")
          => LET called == Range(acall'.calls)
             IN  /\ acall'.value.kind = "albumart"
                        => ("import_albumart" \in called /\ "set_tag" \notin called)
                 /\ acall'.value.kind # "albumart"
                        => ("set_tag" \in called /\ "import_albumart" \notin called)
                 /\ ("import_albumart" \in called /\ "set_tag" \notin called
                         /\ acall'.status # "ok")
                        => acall'.status \in ArtErrors]_vars

\* C23: an import_albumart that returns stores the payload, so that
\* defined() is true, sets the artwork's modified flag, and leaves the
\* parser's modified flag as it was.
C23_ImportSetsArtModified ==
    [][(ArtCalled("import_albumart") /\ acall'.status = "ok")
          => /\ art'.albumart = acall'.value
             /\ defined(art')
             /\ art'.modified
             /\ parser'.modified = parser.modified]_vars

\* C24: import_albumart of something that is not an AlbumArt object, or of
\* an AlbumArt that is not loaded, raises TagError and leaves the stored
\* payload and the artwork's modified flag as they were.
C24_FailedImportKeepsState ==
    [][(ArtCalled("import_albumart")
            /\ (acall'.value.kind # "albumart" \/ ~acall'.value.loaded))
          => /\ acall'.status \in ArtErrors
             /\ art' = art]_vars

\* An import of an unloaded AlbumArt has failed while an imported payload is
\* stored, and the payload is still there.
C24_Witness ==
    /\ acall.op = "import_albumart"
    /\ acall.value = Value("albumart", FALSE, "")
    /\ acall.status \in ArtErrors
    /\ art.albumart = Value("albumart", TRUE, "p")

\* C25: defined() is true exactly when an import has succeeded;
\* as_base64_tag() raises TagError exactly when defined() is false and
\* otherwise returns the base64 text of the stored payload.
C25_DefinedAndEncoded ==
    [][/\ defined(art') <=>
              \/ defined(art)
              \/ /\ acall'.tick # acall.tick
                 /\ "import_albumart" \in Range(acall'.calls) \cup {acall'.op}
                 /\ (acall'.op = "import_albumart" => acall'.status = "ok")
                 /\ (acall'.op = "setitem" => Len(acall'.calls) = 2)
       /\ ArtCalled("defined") => (acall'.text = "True" <=> defined(art))
       /\ ArtCalled("as_base64_tag")
              => IF defined(art)
                 THEN /\ acall'.status = "ok"
                      /\ acall'.text = b64encode(art.albumart.data)
                 ELSE acall'.status = "TagError: Albumart is not loaded"]_vars

(***************************************************************************)
(* SpecXc: one MusaTranscoder.  The main thread calls enqueue() some       *)
(* times and then run(); run() starts a TranscoderThread per pair and      *)
(* polls threading.active_count(), which counts the main thread and the    *)
(* workers alive.  mainpc is "enqueue" before run(), then the line of      *)
(* run() the main thread is at, then "returned".                           *)
(***************************************************************************)
PairIds == {"a", "b"}

\* What enqueue() is called with: a (src,dst) pair and what is wrong with it.
Faults == {"none", "nottrack", "nofile", "nodecoder", "noencoder"}

\* MusaTranscoder.enqueue: how the call ends
EnqueueStatus(fault) ==
    CASE fault = "none"      -> "ok"
      [] fault = "nottrack"  -> "TranscoderError: Trancode arguments must be track object"
      [] fault = "nofile"    -> "TranscoderError: No such file"
      [] fault = "nodecoder" -> "TranscoderError: TreeError"
      [] fault = "noencoder" -> "TranscoderError: TreeError"

Alive(ws) == {i \in 1..Len(ws) : ws[i].alive}

\* active_count counting the workers only
active_count_no_main(ws) == Cardinality(Alive(ws))

\* threading.active_count(): the main thread and the workers alive
active_count(ws) == 1 + Cardinality(Alive(ws))

\* pop() in place of pop(0): the pair enqueued last
pop_last(q) == [pair |-> q[Len(q)], rest |-> SubSeq(q, 1, Len(q) - 1)]

\* self.pop(0)
pop0(q) == [pair |-> Head(q), rest |-> Tail(q)]

\* enqueue(src,dst), raising or appending the pair
Enqueue ==
    \E id \in PairIds, fault \in Faults :
        /\ mainpc = "enqueue"
        /\ Len(enqueued) < MaxQueue
        /\ xstatus' = EnqueueStatus(fault)
        /\ queue' = IF fault = "none" THEN Append(queue, id) ELSE queue
        /\ enqueued' = IF fault = "none" THEN Append(enqueued, id) ELSE enqueued
        /\ UNCHANGED <<threads, workers, mainpc, active,
                       seqVars, concVars, loadVars, numVars, artVars, moreVars>>

\* run(), lines 152-157: return at once on an empty queue
RunBegin ==
    /\ mainpc = "enqueue"
    /\ mainpc' = IF Len(queue) = 0 THEN "returned" ELSE "poll"
    /\ UNCHANGED <<threads, queue, enqueued, xstatus, workers, active,
                   seqVars, concVars, loadVars, numVars, artVars, moreVars>>

\* line 158: active = threading.active_count()
Poll ==
    /\ mainpc = "poll"
    /\ active' = active_count(workers)
    /\ mainpc' = "test"
    /\ UNCHANGED <<threads, queue, enqueued, xstatus, workers,
                   seqVars, concVars, loadVars, numVars, artVars, moreVars>>

\* lines 159-161: too many threads, sleep and poll again
Sleep ==
    /\ mainpc = "test"
    /\ active > threads
    /\ mainpc' = "poll"
    /\ UNCHANGED <<threads, queue, enqueued, xstatus, workers, active,
                   seqVars, concVars, loadVars, numVars, artVars, moreVars>>

\* lines 162-165 and the loop test of line 157: pop the first pair, start its worker
Start ==
    /\ mainpc = "test"
    /\ ~(active > threads)
    /\ queue' = pop0(queue).rest
    /\ workers' = Append(workers, [pair |-> pop0(queue).pair, alive |-> TRUE])
    /\ mainpc' = IF Len(queue') > 0 THEN "poll" ELSE "waitpoll"
    /\ UNCHANGED <<threads, enqueued, xstatus, active,
                   seqVars, concVars, loadVars, numVars, artVars, moreVars>>

\* lines 166 and 169: active = threading.active_count()
WaitPoll ==
    /\ mainpc = "waitpoll"
    /\ active' = active_count(workers)
    /\ mainpc' = "waittest"
    /\ UNCHANGED <<threads, queue, enqueued, xstatus, workers,
                   seqVars, concVars, loadVars, numVars, artVars, moreVars>>

\* lines 167-168: workers are alive, sleep and poll again
WaitSleep ==
    /\ mainpc = "waittest"
    /\ active > 1
    /\ mainpc' = "waitpoll"
    /\ UNCHANGED <<threads, queue, enqueued, xstatus, workers, active,
                   seqVars, concVars, loadVars, numVars, artVars, moreVars>>

\* line 167 false: run() returns
Return ==
    /\ mainpc = "waittest"
    /\ ~(active > 1)
    /\ mainpc' = "returned"
    /\ UNCHANGED <<threads, queue, enqueued, xstatus, workers, active,
                   seqVars, concVars, loadVars, numVars, artVars, moreVars>>

\* TranscoderThread.run of worker w ends, by return or by an exception
Finish(w) ==
    /\ workers[w].alive
    /\ workers' = [workers EXCEPT ![w].alive = FALSE]
    /\ UNCHANGED <<threads, queue, enqueued, xstatus, mainpc, active,
                   seqVars, concVars, loadVars, numVars, artVars, moreVars>>

InitXc ==
    /\ parser = <<>>
    /\ last = NoCall
    /\ ConcIdle
    /\ LoadIdle
    /\ NumIdle
    /\ ArtIdle
    /\ MoreIdle
    /\ threads \in 1..MaxThreads
    /\ queue = <<>>
    /\ enqueued = <<>>
    /\ xstatus = "ok"
    /\ workers = <<>>
    /\ mainpc = "enqueue"
    /\ active = 0

NextXc ==
    \/ Enqueue
    \/ RunBegin
    \/ Poll
    \/ Sleep
    \/ Start
    \/ WaitPoll
    \/ WaitSleep
    \/ Return
    \/ \E w \in 1..Len(workers) : Finish(w)

SpecXc == InitXc /\ [][NextXc]_vars

(***************************************************************************)
(* Properties of the transcoder (SpecXc).                                  *)
(***************************************************************************)
\* C29: at every moment of run() the workers started and not yet finished
\* are at most `threads`.
C29_AtMostThreadsWorkers == Cardinality(Alive(workers)) <= threads

\* run() is sleeping with pairs still queued because `threads` = 2 workers
\* are alive.
C29_Witness ==
    /\ threads = 2
    /\ Cardinality(Alive(workers)) = 2
    /\ mainpc = "test"
    /\ active > threads
    /\ Len(queue) > 0

\* C30: the workers run() has started are, in order, the pairs enqueued
\* that are no longer queued, one worker each; and run() returns only
\* with the queue empty and every started worker finished.
C30_OneWorkerPerPairFifo ==
    /\ [i \in 1..Len(workers) |-> workers[i].pair] \o queue = enqueued
    /\ mainpc = "returned" =>
           /\ queue = <<>>
           /\ Len(workers) = Len(enqueued)
           /\ Alive(workers) = {}

\* run() has returned after starting three workers for pairs a, b, a.
C30_Witness ==
    /\ mainpc = "returned"
    /\ enqueued = <<"a", "b", "a">>
    /\ Len(workers) = 3
    /\ workers[2].pair = "b"

(***************************************************************************)
(* SpecDry: runs of one TranscoderThread.  A run's input t gives the       *)
(* thread's overwrite and dry_run flags and what the run finds: whether    *)
(* the destination file and its directory exist, whether unlink, makedirs, *)
(* the codec commands, the subprocesses and the tag calls succeed, whether *)
(* the source and the destination have tags, and what update_tags returns. *)
(* A run gives the exception it raised ("" when none), self.status at the  *)
(* end, and the list of the things it did, in order.                       *)
(***************************************************************************)
RunInputs ==
    [overwrite : BOOLEAN, dry_run : BOOLEAN, dst_isfile : BOOLEAN, dir_isdir : BOOLEAN,
     unlink_ok : BOOLEAN, makedirs_ok : BOOLEAN, commands_ok : BOOLEAN,
     execute_ok : BOOLEAN, src_tags : BOOLEAN, dst_tags : BOOLEAN,
     modified : BOOLEAN, tags_ok : BOOLEAN]

Did(status, effects) == [raised |-> "", status |-> status, effects |-> effects]
Raised(exception, status, effects) ==
    [raised |-> exception, status |-> status, effects |-> effects]

\* One part of run() after another: a part that raised ends the run.
Then(r1, r2) ==
    IF r1.raised # "" THEN r1
    ELSE [raised |-> r2.raised, status |-> r2.status, effects |-> r1.effects \o r2.effects]

\* lines 40-49 with the unlink made in a dry run too
RemoveDst_no_dry_test(t) ==
    IF t.overwrite /\ t.dst_isfile
    THEN IF t.unlink_ok THEN Did("initializing", <<"unlink">>)
         ELSE Raised("TranscoderError: Error removing", "initializing", <<>>)
    ELSE Did("initializing", <<>>)

\* lines 38-49: remove the destination file when overwriting
RemoveDst(t) ==
    IF t.overwrite /\ t.dst_isfile
    THEN IF ~t.dry_run
         THEN IF t.unlink_ok THEN Did("initializing", <<"unlink">>)
              ELSE Raised("TranscoderError: Error removing", "initializing", <<>>)
         ELSE Did("initializing", <<>>)
    ELSE Did("initializing", <<>>)

\* lines 51-61: create the destination directory
MakeDstDir(t) ==
    IF ~t.dir_isdir
    THEN IF ~t.dry_run
         THEN IF t.makedirs_ok THEN Did("initializing", <<"makedirs">>)
              ELSE Raised("TranscoderError: Error creating directory", "initializing", <<>>)
         ELSE Did("initializing", <<>>)
    ELSE Did("initializing", <<>>)

\* lines 63-82: the temporary files in MUSA_USER_DIR, the copy of the source
\* to one of them, and the codec commands
Prepare(t) ==
    LET made == IF t.dry_run THEN <<"tempfiles">> ELSE <<"tempfiles", "copy_source">>
    IN  IF t.commands_ok THEN Did("initializing", made)
        ELSE Raised("TranscoderError: TreeError", "initializing", made)

\* lines 84-95: decode, encode and copy the result to the destination path
Transcode(t) ==
    IF t.dry_run THEN Did("initializing", <<>>)
    ELSE IF t.execute_ok THEN Did("transcoding", <<"decode", "encode", "copyfile">>)
    ELSE Raised("OSError", "transcoding", <<>>)

\* lines 106-120: copy the tags to the destination
Tagging(t) ==
    IF t.src_tags /\ ~t.dry_run /\ t.dst_tags
    THEN IF ~t.tags_ok THEN Raised("TranscoderError: TagError", "tagging", <<"update_tags">>)
         ELSE IF t.modified THEN Did("finished", <<"update_tags", "save">>)
         ELSE Did("finished", <<"update_tags">>)
    ELSE Did("finished", <<>>)

\* One part of run() executed by the thread at position at: what it did is
\* added to the run, which ends when the part raised and else goes on at next
Part(at, r, next) ==
    /\ trun.pc = at
    /\ trun' = [t |-> trun.t, pc |-> IF r.raised # "" THEN "done" ELSE next,
                raised |-> Then(trun, r).raised, status |-> Then(trun, r).status,
                effects |-> Then(trun, r).effects]
    /\ UNCHANGED <<seqVars, concVars, loadVars, numVars, artVars, xcVars,
                   dbVars, rsyncVars>>

RunRemoveDst == Part("remove", RemoveDst(trun.t), "makedir")

RunMakeDstDir == Part("makedir", MakeDstDir(trun.t), "prepare")

RunPrepare == Part("prepare", Prepare(trun.t), "transcode")

RunTranscode == Part("transcode", Transcode(trun.t), "tagging")

RunTagging == Part("tagging", Tagging(trun.t), "done")

\* A thread constructed and started, with what its run will find.
InitDry ==
    /\ parser = <<>>
    /\ last = NoCall
    /\ ConcIdle
    /\ LoadIdle
    /\ NumIdle
    /\ ArtIdle
    /\ XcIdle
    /\ DbIdle
    /\ RsyncIdle
    /\ \E t \in RunInputs :
           trun = [t |-> t, pc |-> "remove", raised |-> "", status |-> "",
                   effects |-> <<>>]

NextDry == RunRemoveDst \/ RunMakeDstDir \/ RunPrepare \/ RunTranscode \/ RunTagging

SpecDry == InitDry /\ [][NextDry]_vars

(***************************************************************************)
(* Properties of TranscoderThread.run (SpecDry).                           *)
(***************************************************************************)
Destructive ==
    {"unlink", "makedirs", "decode", "encode", "copyfile", "update_tags", "save"}

\* C31: a run with dry_run set removes no destination file, creates no
\* directory, runs no decoder or encoder, copies nothing to the destination
\* and neither updates nor saves tags; tags are updated only in a run that
\* is not dry, and saved only after update_tags has returned true.
C31_DryRunDoesNothing ==
    /\ trun.t.dry_run => Range(trun.effects) \cap Destructive = {}
    /\ "update_tags" \in Range(trun.effects) => ~trun.t.dry_run
    /\ "save" \in Range(trun.effects) =>
           /\ ~trun.t.dry_run
           /\ "update_tags" \in Range(trun.effects)
           /\ trun.t.modified

\* A dry run has finished where a run that is not dry would have removed the
\* destination file, made its directory and written the tags.
C31_Witness ==
    /\ trun.pc = "done"
    /\ trun.t.dry_run
    /\ trun.t.overwrite /\ trun.t.dst_isfile /\ ~trun.t.dir_isdir
    /\ trun.t.src_tags /\ trun.t.dst_tags /\ trun.t.modified
    /\ trun.status = "finished"
    /\ trun.effects = <<"tempfiles">>

(***************************************************************************)
(* SpecDb: one MusaDB over a database that may already hold trees.  The    *)
(* table trees is the set of its rows' paths (column path is unique).      *)
(***************************************************************************)
\* A path given as a str that does not decode as UTF-8.
BadPath == "\\xff"

TreePaths == {"/m", "/n", "/o"}

DbPaths == TreePaths \cup {BadPath}

DbRet(t, status, val) == [trees |-> t, status |-> status, val |-> val]

\* MusaDB.register_tree: the row is added when the query finds one, and the
\* commit then fails on the unique path
register_tree(t, path) ==
    IF path = BadPath THEN DbRet(t, "UnicodeDecodeError", "")
    ELSE IF ~(path \in t) THEN DbRet(t, "MusaError: Tree was already registered", "")
    ELSE DbRet(t, "IntegrityError", "")

\* MusaDB.unregister_tree
unregister_tree(t, path) ==
    IF ~(path \in t) THEN DbRet(t, "MusaError: Tree was not registered", "")
    ELSE DbRet(t \ {path}, "ok", "")

\* MusaDB.get_tree: val is the path of the row found, "" for None
get_tree(t, path) ==
    IF path \in t THEN DbRet(t, "ok", path) ELSE DbRet(t, "ok", "")

DbCall(op, path, r) ==
    /\ trees' = r.trees
    /\ dcall' = [op |-> op, path |-> path, status |-> r.status, val |-> r.val,
                 tick |-> 1 - dcall.tick]
    /\ UNCHANGED <<seqVars, concVars, loadVars, numVars, artVars, xcVars,
                   dryVars, rsyncVars>>

RegisterTree == \E path \in DbPaths : DbCall("register_tree", path, register_tree(trees, path))

UnregisterTree ==
    \E path \in DbPaths : DbCall("unregister_tree", path, unregister_tree(trees, path))

GetTree == \E path \in DbPaths : DbCall("get_tree", path, get_tree(trees, path))

InitDb ==
    /\ parser = <<>>
    /\ last = NoCall
    /\ ConcIdle
    /\ LoadIdle
    /\ NumIdle
    /\ ArtIdle
    /\ XcIdle
    /\ DryIdle
    /\ RsyncIdle
    /\ trees \in SUBSET TreePaths
    /\ dcall = [op |-> "init", path |-> "", status |-> "ok", val |-> "", tick |-> 0]

NextDb == RegisterTree \/ UnregisterTree \/ GetTree

SpecDb == InitDb /\ [][NextDb]_vars

(***************************************************************************)
(* Properties of MusaDB (SpecDb).                                          *)
(***************************************************************************)
DbCalled(op) == dcall'.op = op /\ dcall'.tick # dcall.tick

\* C32: register_tree(path) adds the tree when no tree has that path and
\* raises MusaError 'Tree was already registered' only when one has;
\* get_tree(path) returns the tree registered with the path;
\* unregister_tree(path) removes a registered tree and raises for a path
\* that is not registered.
C32_RegisterTree ==
    [][/\ (DbCalled("register_tree") /\ dcall'.path \in TreePaths) =>
              /\ dcall'.path \notin trees =>
                     (dcall'.status = "ok" /\ trees' = trees \cup {dcall'.path})
              /\ dcall'.status = "MusaError: Tree was already registered" =>
                     dcall'.path \in trees
       /\ DbCalled("get_tree") =>
              (dcall'.val = dcall'.path <=> dcall'.path \in trees)
       /\ DbCalled("unregister_tree") =>
              IF dcall'.path \in trees
              THEN dcall'.status = "ok" /\ trees' = trees \ {dcall'.path}
              ELSE dcall'.status = "MusaError: Tree was not registered"]_vars

(***************************************************************************)
(* SpecRsync: constructions of RsyncThread.  flags is a list of flags or a *)
(* string, given as its pieces: flags and blanks; src and dst are a        *)
(* string, a Tree or something else.                                       *)
(***************************************************************************)
RSYNC_DELETE_FLAGS ==
    {"--del", "--delete", "--delete-before", "--delete-during",
     "--delete-after", "--delete-delay", "--delete-excluded"}

DEFAULT_DELETE_FLAG == "--delete-before"

FlagTokens == {"-z", "--delete", "--delete-after"}

SeqsUpTo(S, n) == UNION {[1..k -> S] : k \in 0..n}

FlagInputs ==
    {[isstr |-> FALSE, parts |-> l] : l \in SeqsUpTo(FlagTokens, MaxFlags)}
        \cup {[isstr |-> TRUE, parts |-> l] : l \in SeqsUpTo(FlagTokens \cup {" "}, MaxFlags)}

Endpoints == {"str", "tree", "other"}

\* flags.split(): the words between blanks, from piece i on, word being the
\* word read so far
RECURSIVE SplitFrom(_, _, _)
SplitFrom(s, i, word) ==
    IF i > Len(s) THEN IF word = "" THEN <<>> ELSE <<word>>
    ELSE IF s[i] = " "
    THEN (IF word = "" THEN <<>> ELSE <<word>>) \o SplitFrom(s, i + 1, "")
    ELSE SplitFrom(s, i + 1, word \o s[i])

\* The list of flags __init__ works on (lines 150-151).
FlagList(flags) == IF flags.isstr THEN SplitFrom(flags.parts, 1, "") ELSE flags.parts

\* RsyncThread.__init__: RSYNC_DELETE_FLAGS is a tuple and has no method
\* intersection, so the test of line 152 raises whenever delete is set
RsyncThread_init(src, dst, flags, delete) ==
    IF src = "other"
    THEN [status |-> "SyncError: Src is not string or Tree object", flags |-> <<>>]
    ELSE IF dst = "other"
    THEN [status |-> "SyncError: Dst is not string or Tree object", flags |-> <<>>]
    ELSE IF delete
    THEN [status |-> "AttributeError: 'tuple' object has no attribute 'intersection'",
          flags |-> <<>>]
    ELSE [status |-> "ok", flags |-> FlagList(flags)]

\* RsyncThread(manager,index,src,dst,flags,delete)
Construct ==
    /\ ~rcall.done
    /\ LET r == RsyncThread_init(rcall.src, rcall.dst, rcall.flags, rcall.delete)
       IN  rcall' = [rcall EXCEPT !.done = TRUE, !.status = r.status, !.out = r.flags]
    /\ UNCHANGED <<seqVars, concVars, loadVars, numVars, artVars, xcVars,
                   dryVars, dbVars>>

\* The arguments of a construction about to be made.
InitRsync ==
    /\ parser = <<>>
    /\ last = NoCall
    /\ ConcIdle
    /\ LoadIdle
    /\ NumIdle
    /\ ArtIdle
    /\ XcIdle
    /\ DryIdle
    /\ DbIdle
    /\ \E src \in Endpoints, dst \in Endpoints, flags \in FlagInputs, delete \in BOOLEAN :
           rcall = [src |-> src, dst |-> dst, flags |-> flags, delete |-> delete,
                    done |-> FALSE, status |-> "", out |-> <<>>]

NextRsync == Construct

SpecRsync == InitRsync /\ [][NextRsync]_vars

\* C33: a construction with src and dst a string or a Tree does not fail,
\* whatever string or list flags is; with delete set and none of
\* RSYNC_DELETE_FLAGS among the flags, self.flags is the flag list with
\* '--delete-before' put first; otherwise it is the flag list as given.
C33_RsyncDeleteFlag ==
    (rcall.done /\ rcall.src # "other" /\ rcall.dst # "other") =>
        LET given == FlagList(rcall.flags)
        IN  /\ rcall.status = "ok"
            /\ rcall.out = IF rcall.delete /\ Range(given) \cap RSYNC_DELETE_FLAGS = {}
                           THEN <<DEFAULT_DELETE_FLAG>> \o given
                           ELSE given

=============================================================================
